---- MODULE Spec2Model ----
(***************************************************************************)
(* The asynchronous scene loader of examples/simple_viewer_2dgs_brics.py:  *)
(* request_load announces a load, takes a token under load_lock and starts *)
(* a thread running _do_load, which resolves the newest checkpoint, tries  *)
(* the short-circuit and the LRU cache, loads, and publishes into `data`   *)
(* under load_lock when its token is still the current one.                *)
(***************************************************************************)
EXTENDS Integers, Sequences, FiniteSets, TLC

\* ------------------------------------------------------------------ bounds
\* Number of request_load calls of one run (one load thread each).
MaxRequests == 3
\* Highest checkpoint number that appears in a ckpts directory.
MaxVer == 2
\* Longest directory name given to the date test (the shortest is two less).
MaxNameLen == 11
\* Most files under one gsplat_2dgs directory.
MaxFiles == 3
\* Latest modification time: the file system changes MaxClock - 1 times.
MaxClock == 2

\* ------------------------------------------------------- program constants
CACHE_SIZE == 2

\* The gsplat_2dgs directories (sessions) that exist under base_dir: "A" is
\* the latest session, the one _resolve_initial_dir picks and the one still
\* being trained (checkpoints keep arriving in it); "B" and "C" are older,
\* finished sessions holding one checkpoint each.
Dirs == {"A", "B", "C"}
Growing == {"A"}
InitialDirs == {"A"}

\* A Path is a directory together with the form it is written in: raw (as
\* built from a relative or symlinked base_dir) or resolved (absolute,
\* symlink-free). str() of the two forms of one directory differ.
Paths == [d : Dirs, raw : BOOLEAN]
NoneDir == [d |-> "None", raw |-> FALSE]
NoneNum == -2
NonePayload == 0

\* Path.resolve(): the resolved form of the same directory (idempotent).
Resolve(p) == [d |-> p.d, raw |-> FALSE]
\* str(path): the two forms of a directory are different strings.
Str(p) == p

\* The token values of one run; the load thread of a request is named by
\* the token it was started with.
\* The threads that can be started: one more than the requests of the main
\* runs, for the run that follows a lookup through an eviction.
MaxThreads == MaxRequests + 1
Tokens == 1..MaxThreads

VARIABLES
    data,        \* the displayed scene: payload (the six tensors), ckpt_num, dir
    cache,       \* the OrderedDict, oldest first: entries [key, payload, ckpt_num]
    load_token,  \* load_token["id"]
    status,      \* the status shown by the last viewer.set_loading call
    ckpts,       \* the file system: checkpoint numbers in <dir>/ckpts
    initial_dir, \* the result of _resolve_initial_dir (NoneDir when None)
    initial_done,\* main has passed its initial request_load (lines 309-310)
    announced,   \* per path: request_load calls past line 146, not yet at 148
    thr,         \* per token: the position and the locals of its _do_load
    dataBy,      \* history: token of the load that last wrote data
    mutators,    \* history: tokens of the loads that wrote data or cache
    viewer,      \* the GsplatViewerBrics object: its listing caches, caps,
                 \* dropdown values and output_dir
    fs,          \* the file system under base_dir: the root and a date directory
    call,        \* the arguments of a call of one of the pure functions
    ret          \* the value returned by the last call

\* The state of the loader (the closure variables of main).
loaderVars == <<data, cache, load_token, status, ckpts, initial_dir,
                initial_done, announced, thr, dataBy, mutators>>
\* The state of the panel and of what it scans.
viewVars == <<viewer, fs, call, ret>>

vars == <<loaderVars, viewVars>>

\* ------------------------------------------------------------ pure helpers
RECURSIVE MaxOf(_)
MaxOf(S) ==
    IF S = {} THEN -1
    ELSE LET x == CHOOSE y \in S : TRUE
             m == MaxOf(S \ {x})
         IN IF x > m THEN x ELSE m

\* _find_best_ckpt: best_num over the files of <dir>/ckpts matching
\* ckpt_<n>.pt, -1 (best_path None) when there is none.
find_best_ckpt(p) == MaxOf(ckpts[p.d])

\* The set of keys of the OrderedDict.
CacheKeys(c) == {c[k].key : k \in 1..Len(c)}
CacheIndex(c, key) == CHOOSE k \in 1..Len(c) : c[k].key = key

\* cache[key] = entry: an existing key keeps its position, a new key is
\* appended at the end (OrderedDict.__setitem__).
CacheSet(c, entry) ==
    IF entry.key \in CacheKeys(c)
    THEN [c EXCEPT ![CacheIndex(c, entry.key)] = entry]
    ELSE Append(c, entry)

\* while len(cache) > CACHE_SIZE: cache.popitem(last=False)
EnforceSizeNewest(c) == IF Len(c) > CACHE_SIZE THEN SubSeq(c, 1, CACHE_SIZE) ELSE c
RECURSIVE EnforceSize(_)
EnforceSize(c) == IF Len(c) > CACHE_SIZE THEN EnforceSize(Tail(c)) ELSE c

\* if token_id != load_token["id"]: return    (cache-hit path, line 84)
HitTokenSupersededNever(token_id) == FALSE
HitTokenSuperseded(token_id) == token_id # load_token

\* if token_id != load_token["id"]: return    (fresh-load path, line 115)
LoadTokenSupersededAlways(token_id) == TRUE
LoadTokenSupersededNever(token_id) == FALSE
LoadTokenSuperseded(token_id) == token_id # load_token

\* data.get("dir") == str(dir_path)
DirIsDisplayedAny(dir_path) == data.dir # NoneDir
DirIsDisplayed(dir_path) == data.dir = Str(dir_path)

\* cached.get("ckpt_num") == best_num
CachedIsBestAlways(cached_num, best_num) == TRUE
CachedIsBest(cached_num, best_num) == cached_num = best_num

\* What the not-found and the error paths do to data: nothing.
DataAfterFailureBlank == [payload |-> NonePayload, ckpt_num |-> NoneNum, dir |-> NoneDir]
DataAfterFailure == data

\* The status of the display that a set_loading message stands for.
StatusOf(msg) ==
    CASE msg = "Idle" -> "Idle"
      [] msg = "Loading" -> "Loading"
      [] msg = "NoCkpt" -> "NotFound"
      [] msg = "Error" -> "Error"
      [] msg \in {"Already", "Cached", "Loaded"} -> "Loaded"

DonePc == {"done_notfound", "done_already", "done_cached", "done_error",
           "done_loaded", "done_stale", "done_crash"}

NewThread == [pc |-> "unused", dir_path |-> NoneDir, best_num |-> -1,
              payload |-> NonePayload, num |-> NoneNum]

\* key = str(Path(dir_path).resolve())
Key(t) == Str(Resolve(thr[t].dir_path))

\* The end of _do_load: its locals are gone.
Finish(t, outcome) ==
    [thr EXCEPT ![t].pc = outcome, ![t].payload = NonePayload, ![t].num = NoneNum]

RECURSIVE SumOver(_, _)
SumOver(f, S) ==
    IF S = {} THEN 0
    ELSE LET x == CHOOSE y \in S : TRUE IN f[x] + SumOver(f, S \ {x})

\* The request_load calls made so far.
Requests == load_token + SumOver(announced, Paths)

\* ------------------------------------------------------------ names (str)
\* A name is the sequence of the code points of its characters, so that the
\* order of two names is Python's order of two str values.
Hyphen == 45
Digits == 48..57
LetterX == 120

\* n.replace("-", "")
StripHyphens(n) == SelectSeq(n, LAMBDA c : c # Hyphen)

\* str.isdigit(): a non-empty string of digits.
IsDigitStr(n) == Len(n) > 0 /\ \A i \in 1..Len(n) : n[i] \in Digits

\* len(n) == 10 and n[4] == "-" and n[7] == "-" and n.replace("-", "").isdigit()
\* (positions count from 0 in the source and from 1 here).
IsDateName(n) ==
    /\ Len(n) = 10
    /\ n[5] = Hyphen
    /\ n[8] = Hyphen
    /\ IsDigitStr(StripHyphens(n))

\* s[-n:] for n > 0: the last n elements of s (all of s when it has fewer).
LastN(s, n) == SubSeq(s, IF Len(s) > n THEN Len(s) - n + 1 ELSE 1, Len(s))

\* x in l, for a list l.
AsLabels(l) == {l[i] : i \in 1..Len(l)}

\* a < b for two str values: the first differing character decides, a proper
\* prefix is smaller.
RECURSIVE LexLessFrom(_, _, _)
LexLessFrom(a, b, i) ==
    IF i > Len(b) THEN FALSE
    ELSE IF i > Len(a) THEN TRUE
    ELSE IF a[i] # b[i] THEN a[i] < b[i]
    ELSE LexLessFrom(a, b, i + 1)

LexLess(a, b) == LexLessFrom(a, b, 1)

\* labels.sort() on the names of S.
RECURSIVE SortLex(_)
SortLex(S) ==
    IF S = {} THEN <<>>
    ELSE LET m == CHOOSE x \in S : \A y \in S : x = y \/ LexLess(x, y)
         IN <<m>> \o SortLex(S \ {m})

\* ------------------------------------------------- the panel at rest
NoneTime == -1
NoneCap == -1
NoneLabel == <<>>
EmptyDict == [k \in {} |-> <<>>]

\* GsplatViewerBrics.__init__, lines 35-47: the fields before the first scan.
ViewerNew(max_d, max_m) ==
    [date_labels |-> <<>>, base_mtime |-> NoneTime,
     date_to_multis |-> EmptyDict, date_mtimes |-> EmptyDict,
     max_dates |-> max_d, max_multis |-> max_m,
     date_choices |-> <<>>, multi_choices |-> <<>>,
     date_value |-> NoneLabel, multi_value |-> NoneLabel,
     output_dir |-> NoneDir]

\* The names under base_dir: the date directories 2025-01-01, 2025-01-02 and
\* 2025-01-03 and the directory 2025-01-0x, which is no date.
DateName(k) == <<50, 48, 50, 53, Hyphen, 48, 49, Hyphen, 48, 48 + k>>
DateNames == {DateName(1), DateName(2), DateName(3)}
OtherName == <<50, 48, 50, 53, Hyphen, 48, 49, Hyphen, 48, LetterX>>
RootNames == DateNames \cup {OtherName}

\* The date directory whose children are followed: the latest one. Its
\* children are multisequence9 and multisequence10 (a name is written m<digits>;
\* the prefix is common to all). The other date directories stay empty.
SessionDate == DateName(3)
LetterM == 109
MultiName(ds) == <<LetterM>> \o ds
Multis == {MultiName(<<57>>), MultiName(<<49, 48>>)}

\* A base_dir that does not exist. root: the state of base_dir, its
\* st_mtime_ns and its children; date: whether SessionDate can be listed, its
\* st_mtime_ns and, per multisequence, whether it is absent, bare (without
\* gsplat_2dgs) or full; clock: the time of the last change.
FsNone ==
    [root |-> [state |-> "missing", mtime |-> 0, entries |-> {}],
     date |-> [readable |-> TRUE, mtime |-> 0,
               multis |-> [m \in Multis |-> "absent"]],
     clock |-> 0]

NoCall == [fn |-> "none", arg |-> <<>>]
NoRet == [fn |-> "none", val |-> <<>>]

\* The loader does not read or write the panel's listings: they stay as
\* constructed while the loader is examined.
ViewAtRest ==
    /\ viewer = ViewerNew(NoneCap, NoneCap)
    /\ fs = FsNone
    /\ call = NoCall
    /\ ret = NoRet

\* --------------------------------------------------------------- the state
Init ==
    /\ ViewAtRest
    /\ data = [payload |-> NonePayload, ckpt_num |-> NoneNum, dir |-> NoneDir]
    /\ cache = <<>>
    /\ load_token = 0
    /\ status = "Idle"
    /\ ckpts \in {f \in [Dirs -> {{}, {1}}] : \A d \in Dirs \ Growing : f[d] = {1}}
    /\ initial_dir \in {p \in Paths : p.d \in InitialDirs} \cup {NoneDir}
    /\ initial_done = FALSE
    /\ announced = [p \in Paths |-> 0]
    /\ thr = [t \in Tokens |-> NewThread]
    /\ dataBy = 0
    /\ mutators = {}

\* ------------------------------------------------------------ request_load
\* viewer.set_loading(True, ...): the first statement of request_load.
AnnounceWithin(p, n) ==
    /\ Requests < n
    /\ announced' = [announced EXCEPT ![p] = @ + 1]
    /\ status' = StatusOf("Loading")
    /\ UNCHANGED <<data, cache, load_token, ckpts, initial_dir, thr, dataBy,
                   mutators>>

Announce(p) == AnnounceWithin(p, MaxRequests)

\* main: if initial_dir is not None: request_load(initial_dir)
InitialLoad ==
    /\ ~initial_done
    /\ initial_dir # NoneDir
    /\ initial_done' = TRUE
    /\ Announce(initial_dir)
    /\ UNCHANGED viewVars

\* main with initial_dir None: no request is issued.
InitialSkip ==
    /\ ~initial_done
    /\ initial_dir = NoneDir
    /\ initial_done' = TRUE
    /\ UNCHANGED <<data, cache, load_token, status, ckpts, initial_dir,
                   announced, thr, dataBy, mutators>>
    /\ UNCHANGED viewVars

\* _on_select_dir(p) from a dropdown handler or refresh_base_dir: p is the
\* result of _resolve_gsplat_dir, a resolved path.
SelectDir(d) ==
    /\ UNCHANGED initial_done
    /\ Announce([d |-> d, raw |-> FALSE])
    /\ UNCHANGED viewVars

\* with load_lock: load_token["id"] += 1; token_id = load_token["id"]; then
\* the thread running _do_load(dir_path, token_id) is started.
TokenAfterSame(tok) == tok
TokenAfter(tok) == tok + 1

TakeToken(p) ==
    /\ announced[p] > 0
    /\ announced' = [announced EXCEPT ![p] = @ - 1]
    /\ load_token' = TokenAfter(load_token)
    /\ thr' = [thr EXCEPT ![load_token'].pc = "resolve",
                          ![load_token'].dir_path = p]
    /\ UNCHANGED <<data, cache, status, ckpts, initial_dir, initial_done,
                   dataBy, mutators>>
    /\ UNCHANGED viewVars

\* ---------------------------------------------------------------- _do_load
\* best_path, best_num = _find_best_ckpt(dir_path)
DoResolve(t) ==
    /\ thr[t].pc = "resolve"
    /\ LET best == find_best_ckpt(thr[t].dir_path)
       IN thr' = [thr EXCEPT ![t].best_num = best,
                            ![t].pc = IF best = -1 THEN "nf_status"
                                      ELSE "check_dir"]
    /\ UNCHANGED <<data, cache, load_token, status, ckpts, initial_dir,
                   initial_done, announced, dataBy, mutators>>
    /\ UNCHANGED viewVars

\* viewer.set_loading(False, "No ckpt_*.pt in ..."); return
NotFoundStatus(t) ==
    /\ thr[t].pc = "nf_status"
    /\ status' = StatusOf("NoCkpt")
    /\ data' = DataAfterFailure
    /\ thr' = Finish(t, "done_notfound")
    /\ UNCHANGED <<cache, load_token, ckpts, initial_dir, initial_done,
                   announced, dataBy, mutators>>
    /\ UNCHANGED viewVars

\* The first operand of the short-circuit test, read without load_lock.
CheckDir(t) ==
    /\ thr[t].pc = "check_dir"
    /\ thr' = [thr EXCEPT ![t].pc = IF DirIsDisplayed(thr[t].dir_path)
                                    THEN "check_num" ELSE "cache_check"]
    /\ UNCHANGED <<data, cache, load_token, status, ckpts, initial_dir,
                   initial_done, announced, dataBy, mutators>>
    /\ UNCHANGED viewVars

\* The second operand: data.get("ckpt_num") == best_num, a separate read.
CheckNum(t) ==
    /\ thr[t].pc = "check_num"
    /\ thr' = [thr EXCEPT ![t].pc = IF data.ckpt_num = thr[t].best_num
                                    THEN "al_status" ELSE "cache_check"]
    /\ UNCHANGED <<data, cache, load_token, status, ckpts, initial_dir,
                   initial_done, announced, dataBy, mutators>>
    /\ UNCHANGED viewVars

\* viewer.set_loading(False, "Already loaded ..."); return
AlreadyStatus(t) ==
    /\ thr[t].pc = "al_status"
    /\ status' = StatusOf("Already")
    /\ thr' = Finish(t, "done_already")
    /\ UNCHANGED <<data, cache, load_token, ckpts, initial_dir, initial_done,
                   announced, dataBy, mutators>>
    /\ UNCHANGED viewVars

\* if key in cache: (read without load_lock)
CacheCheck(t) ==
    /\ thr[t].pc = "cache_check"
    /\ thr' = [thr EXCEPT ![t].pc = IF Key(t) \in CacheKeys(cache)
                                    THEN "cache_read" ELSE "load"]
    /\ UNCHANGED <<data, cache, load_token, status, ckpts, initial_dir,
                   initial_done, announced, dataBy, mutators>>
    /\ UNCHANGED viewVars

\* cached = cache[key] (KeyError ends the thread when the entry was evicted
\* since the membership test); if cached.get("ckpt_num") == best_num.
CacheRead(t) ==
    /\ thr[t].pc = "cache_read"
    /\ IF Key(t) \notin CacheKeys(cache)
       THEN thr' = Finish(t, "done_crash")
       ELSE LET cached == cache[CacheIndex(cache, Key(t))]
            IN IF CachedIsBest(cached.ckpt_num, thr[t].best_num)
               THEN thr' = [thr EXCEPT ![t].pc = "hit_lock",
                                       ![t].payload = cached.payload,
                                       ![t].num = cached.ckpt_num]
               ELSE thr' = [thr EXCEPT ![t].pc = "load"]
    /\ UNCHANGED <<data, cache, load_token, status, ckpts, initial_dir,
                   initial_done, announced, dataBy, mutators>>
    /\ UNCHANGED viewVars

\* with load_lock: if token_id != load_token["id"]: return; data.update(cached)
HitPublish(t) ==
    /\ thr[t].pc = "hit_lock"
    /\ IF HitTokenSuperseded(t)
       THEN /\ thr' = Finish(t, "done_stale")
            /\ UNCHANGED <<data, dataBy, mutators>>
       ELSE /\ data' = [payload |-> thr[t].payload, ckpt_num |-> thr[t].num,
                        dir |-> Key(t)]
            /\ dataBy' = t
            /\ mutators' = mutators \cup {t}
            /\ thr' = [thr EXCEPT ![t].pc = "hit_status"]
    /\ UNCHANGED <<cache, load_token, status, ckpts, initial_dir, initial_done,
                   announced>>
    /\ UNCHANGED viewVars

\* viewer.set_loading(False, "Cached ckpt_..."); return
CachedStatus(t) ==
    /\ thr[t].pc = "hit_status"
    /\ status' = StatusOf("Cached")
    /\ thr' = Finish(t, "done_cached")
    /\ UNCHANGED <<data, cache, load_token, ckpts, initial_dir, initial_done,
                   announced, dataBy, mutators>>
    /\ UNCHANGED viewVars

\* try: torch.load(best_path) ... : the tensors of a successful load are new
\* objects, identified here by the token of the load that made them.
LoadOk(t) ==
    /\ thr[t].pc = "load"
    /\ thr' = [thr EXCEPT ![t].pc = "pub_lock", ![t].payload = t]
    /\ UNCHANGED <<data, cache, load_token, status, ckpts, initial_dir,
                   initial_done, announced, dataBy, mutators>>
    /\ UNCHANGED viewVars

\* Where the except branch of the load continues: at its set_loading call,
\* after which it returns (it never reaches the lock region of line 114).
AfterLoadFailureFallsThrough == "pub_lock"
AfterLoadFailure == "err_status"

\* except Exception: (an unreadable file, a missing key, no device memory, at
\* any statement of the try block: what was built so far is dropped)
LoadFails(t) ==
    /\ thr[t].pc = "load"
    /\ thr' = [thr EXCEPT ![t].pc = AfterLoadFailure]
    /\ UNCHANGED <<data, cache, load_token, status, ckpts, initial_dir,
                   initial_done, announced, dataBy, mutators>>
    /\ UNCHANGED viewVars

\* viewer.set_loading(False, "Error: ..."); return
ErrorStatus(t) ==
    /\ thr[t].pc = "err_status"
    /\ status' = StatusOf("Error")
    /\ data' = DataAfterFailure
    /\ thr' = Finish(t, "done_error")
    /\ UNCHANGED <<cache, load_token, ckpts, initial_dir, initial_done,
                   announced, dataBy, mutators>>
    /\ UNCHANGED viewVars

\* with load_lock: if token_id != load_token["id"]: return; data.update(...);
\* cache[key] = {...}; while len(cache) > CACHE_SIZE: cache.popitem(last=False)
LoadPublish(t) ==
    /\ thr[t].pc = "pub_lock"
    /\ IF LoadTokenSuperseded(t)
       THEN /\ thr' = Finish(t, "done_stale")
            /\ UNCHANGED <<data, cache, dataBy, mutators>>
       ELSE /\ data' = [payload |-> thr[t].payload, ckpt_num |-> thr[t].best_num,
                        dir |-> Key(t)]
            /\ cache' = EnforceSize(CacheSet(cache,
                            [key |-> Key(t), payload |-> thr[t].payload,
                             ckpt_num |-> thr[t].best_num]))
            /\ dataBy' = t
            /\ mutators' = mutators \cup {t}
            /\ thr' = [thr EXCEPT ![t].pc = "ld_status"]
    /\ UNCHANGED <<load_token, status, ckpts, initial_dir, initial_done,
                   announced>>
    /\ UNCHANGED viewVars

\* viewer.set_loading(False, "Loaded ckpt_...")
LoadedStatus(t) ==
    /\ thr[t].pc = "ld_status"
    /\ status' = StatusOf("Loaded")
    /\ thr' = Finish(t, "done_loaded")
    /\ UNCHANGED <<data, cache, load_token, ckpts, initial_dir, initial_done,
                   announced, dataBy, mutators>>
    /\ UNCHANGED viewVars

\* ------------------------------------------------------------- environment
\* The trainer writes the next checkpoint ckpt_<n>.pt into <dir>/ckpts.
NewCkpt(d) ==
    /\ d \in Growing
    /\ MaxOf(ckpts[d]) < MaxVer
    /\ ckpts' = [ckpts EXCEPT ![d] = @ \cup {IF @ = {} THEN 1 ELSE MaxOf(@) + 1}]
    /\ UNCHANGED <<data, cache, load_token, status, initial_dir, initial_done,
                   announced, thr, dataBy, mutators>>
    /\ UNCHANGED viewVars

Next ==
    \/ InitialSkip
    \/ InitialLoad
    \/ \E d \in Dirs : SelectDir(d)
    \/ \E p \in Paths : TakeToken(p)
    \/ \E t \in Tokens : DoResolve(t)
    \/ \E t \in Tokens : NotFoundStatus(t)
    \/ \E t \in Tokens : CheckDir(t)
    \/ \E t \in Tokens : CheckNum(t)
    \/ \E t \in Tokens : AlreadyStatus(t)
    \/ \E t \in Tokens : CacheCheck(t)
    \/ \E t \in Tokens : CacheRead(t)
    \/ \E t \in Tokens : HitPublish(t)
    \/ \E t \in Tokens : CachedStatus(t)
    \/ \E t \in Tokens : LoadOk(t)
    \/ \E t \in Tokens : LoadFails(t)
    \/ \E t \in Tokens : ErrorStatus(t)
    \/ \E t \in Tokens : LoadPublish(t)
    \/ \E t \in Tokens : LoadedStatus(t)
    \/ \E d \in Growing : NewCkpt(d)

Spec == Init /\ [][Next]_vars

\* The steps of the thread started with token t, and the scheduling assumed
\* for progress: request_load goes on from its announcement to its lock
\* region, every started thread keeps being scheduled, and torch.load ends
\* (with its result or with an exception). Nothing is assumed about the user
\* or the trainer.
ThreadStep(t) ==
    \/ DoResolve(t)
    \/ NotFoundStatus(t)
    \/ CheckDir(t)
    \/ CheckNum(t)
    \/ AlreadyStatus(t)
    \/ CacheCheck(t)
    \/ CacheRead(t)
    \/ HitPublish(t)
    \/ CachedStatus(t)
    \/ LoadOk(t)
    \/ LoadFails(t)
    \/ ErrorStatus(t)
    \/ LoadPublish(t)
    \/ LoadedStatus(t)

Fairness ==
    /\ WF_vars(\E p \in Paths : TakeToken(p))
    /\ \A t \in Tokens : WF_vars(ThreadStep(t))

\* The requests issued in the runs followed to their end.
LiveRequests == 2

NextLive ==
    \/ InitialSkip
    \/ Requests < LiveRequests /\ InitialLoad
    \/ \E d \in Dirs : Requests < LiveRequests /\ SelectDir(d)
    \/ \E p \in Paths : TakeToken(p)
    \/ \E t \in Tokens : ThreadStep(t)
    \/ \E d \in Growing : NewCkpt(d)

SpecLive == Init /\ [][NextLive]_vars /\ Fairness

\* ================================================================= rendering
\* The requests issued while a render is followed.
RenderRequests == 2

\* The fields of data that viewer_render_fn hands to rasterization_2dgs, in
\* the order it reads them. data.update writes them in one statement, which is
\* why data keeps one payload for the six of them; the reads are six.
RenderFields == <<"means", "quats", "scales", "opacities", "colors", "sh_degree">>

\* if data["means"] is None: return the background; read without load_lock.
RenderBegin ==
    /\ call.fn = "none"
    /\ call' = [fn |-> "render",
                arg |-> IF data.payload = NonePayload THEN "background"
                        ELSE "rasterize"]
    /\ ret' = [fn |-> "render", val |-> <<>>]
    /\ UNCHANGED <<loaderVars, viewer, fs>>

\* means=data["means"], quats=data["quats"], ...: the next argument is read
\* from data, without load_lock; ret keeps the payload each one came from.
RenderRead ==
    /\ call.fn = "render"
    /\ call.arg = "rasterize"
    /\ Len(ret.val) < Len(RenderFields)
    /\ ret' = [ret EXCEPT !.val = Append(@, data.payload)]
    /\ UNCHANGED <<loaderVars, viewer, fs, call>>

\* return renders (or the background)
RenderReturn ==
    /\ call.fn = "render"
    /\ call.arg = "rasterize" => Len(ret.val) = Len(RenderFields)
    /\ call' = NoCall
    /\ ret' = NoRet
    /\ UNCHANGED <<loaderVars, viewer, fs>>

NextRender ==
    \/ InitialSkip
    \/ Requests < RenderRequests /\ InitialLoad
    \/ \E d \in Dirs : Requests < RenderRequests /\ SelectDir(d)
    \/ \E p \in Paths : TakeToken(p)
    \/ \E t \in Tokens : DoResolve(t)
    \/ \E t \in Tokens : NotFoundStatus(t)
    \/ \E t \in Tokens : CheckDir(t)
    \/ \E t \in Tokens : CheckNum(t)
    \/ \E t \in Tokens : AlreadyStatus(t)
    \/ \E t \in Tokens : CacheCheck(t)
    \/ \E t \in Tokens : CacheRead(t)
    \/ \E t \in Tokens : HitPublish(t)
    \/ \E t \in Tokens : CachedStatus(t)
    \/ \E t \in Tokens : LoadOk(t)
    \/ \E t \in Tokens : LoadFails(t)
    \/ \E t \in Tokens : ErrorStatus(t)
    \/ \E t \in Tokens : LoadPublish(t)
    \/ \E t \in Tokens : LoadedStatus(t)
    \/ \E d \in Growing : NewCkpt(d)
    \/ RenderBegin
    \/ RenderRead
    \/ RenderReturn

SpecRender == Init /\ [][NextRender]_vars

\* ================================================================ date names
\* The loader at rest: nothing requested, nothing loaded.
LoaderAtRest ==
    /\ data = [payload |-> NonePayload, ckpt_num |-> NoneNum, dir |-> NoneDir]
    /\ cache = <<>>
    /\ load_token = 0
    /\ status = "Idle"
    /\ ckpts = [d \in Dirs |-> {1}]
    /\ initial_dir = NoneDir
    /\ initial_done = FALSE
    /\ announced = [p \in Paths |-> 0]
    /\ thr = [t \in Tokens |-> NewThread]
    /\ dataBy = 0
    /\ mutators = {}

\* The characters of the names tried and the names themselves.
NameChars == {Hyphen, 48, LetterX}
Names == UNION {[1..n -> NameChars] : n \in (MaxNameLen - 2)..MaxNameLen}

InitDate ==
    /\ LoaderAtRest
    /\ viewer = ViewerNew(NoneCap, NoneCap)
    /\ fs = FsNone
    /\ call \in {[fn |-> "is_date", arg |-> n] : n \in Names}
    /\ ret = NoRet

\* The date test applied to the name of a directory: is_date_folder (trainer),
\* _is_date_dir (viewer script) and the test inlined in _scan_date_labels.
IsDateCall ==
    /\ call.fn = "is_date"
    /\ ret.fn = "none"
    /\ ret' = [fn |-> "is_date", val |-> IsDateName(call.arg)]
    /\ UNCHANGED <<loaderVars, viewer, fs, call>>

NextDate == IsDateCall

SpecDate == InitDate /\ [][NextDate]_vars

\* ====================================================== checkpoint resolution
\* The files ckpt_* under a gsplat_2dgs directory. A name is ckpt_<digits>,
\* then nothing, _rank0 or a suffix the pattern rejects (as in ckpt_7_old.pt),
\* then .pt or .pth; the file lies in ckpts/, at the root of the directory or
\* deeper; a link is a symbolic link ckpt_10_rank0.pt to ckpts/ckpt_10.pt (a
\* link carries the version of its target in its name).
CkptDigits == {<<7>>, <<1, 0>>}
Exts == {"pt", "pth"}
Locs == {"ckpts", "root", "deep"}

CkptFiles ==
    [digits : CkptDigits, suffix : {"none"}, ext : Exts, loc : Locs, link : {FALSE}]
    \cup [digits : {<<1, 0>>}, suffix : {"rank"}, ext : {"pt"},
          loc : {"ckpts", "root"}, link : BOOLEAN]
    \cup [digits : {<<7>>}, suffix : {"junk"}, ext : {"pt"},
          loc : {"ckpts", "deep"}, link : {FALSE}]

NoPath == [digits |-> <<>>, suffix |-> "none", ext |-> "none", loc |-> "none"]

\* The path of a directory entry, and p.resolve() of it.
PathOf(e) == [digits |-> e.digits, suffix |-> e.suffix, ext |-> e.ext, loc |-> e.loc]
LinkTarget == [digits |-> <<1, 0>>, suffix |-> "none", ext |-> "pt", loc |-> "ckpts"]
ResolvePath(e) == IF e.link THEN LinkTarget ELSE PathOf(e)

\* The contents of a directory tree: no two entries with the same path.
RECURSIVE TreesUpTo(_)
TreesUpTo(n) ==
    IF n = 0 THEN {{}}
    ELSE LET smaller == TreesUpTo(n - 1)
         IN smaller \cup
            UNION {{S \cup {e} :
                       e \in {f \in CkptFiles : \A g \in S : PathOf(g) # PathOf(f)}} :
                   S \in smaller}

FileSets == TreesUpTo(MaxFiles)

\* The orders in which the file system may list the entries of S.
Orders(S) ==
    {o \in [1..Cardinality(S) -> S] : \A i, j \in 1..Cardinality(S) :
                                          o[i] = o[j] => i = j}

\* int(m.group(1)): the value of a decimal numeral.
RECURSIVE IntOf(_)
IntOf(ds) ==
    IF Len(ds) = 0 THEN 0
    ELSE 10 * IntOf(SubSeq(ds, 1, Len(ds) - 1)) + ds[Len(ds)]

\* re.match(r"^ckpt_(\d+)(?:_rank\d+)?\.(?:<exts>)$", p.name)
RegexMatches(e, exts) == e.suffix \in {"none", "rank"} /\ e.ext \in exts

\* <loc>.glob("ckpt_*.<ext>") in the listing order o.
Glob(o, loc, ext) == SelectSeq(o, LAMBDA e : e.loc = loc /\ e.ext = ext)
\* Path(gsplat_dir).rglob("ckpt_*.<ext>"): every depth.
RGlob(o, ext) == SelectSeq(o, LAMBDA e : e.ext = ext)

\* if n > best_num:
NewerAlways(n, best_num) == TRUE
Newer(n, best_num) == n > best_num

\* The loop of _find_best_ckpt over the glob result.
RECURSIVE FindBestFrom(_, _, _)
FindBestFrom(seq, i, best) ==
    IF i > Len(seq) THEN best
    ELSE IF ~RegexMatches(seq[i], {"pt"}) THEN FindBestFrom(seq, i + 1, best)
    ELSE LET n == IntOf(seq[i].digits)
         IN IF Newer(n, best.num)
            THEN FindBestFrom(seq, i + 1, [path |-> PathOf(seq[i]), num |-> n])
            ELSE FindBestFrom(seq, i + 1, best)

\* _find_best_ckpt(dir_path) on a tree listed in the order o.
FindBestCkpt(o, ckpts_exists) ==
    IF ~ckpts_exists THEN [path |-> NoPath, num |-> -1]
    ELSE FindBestFrom(Glob(o, "ckpts", "pt"), 1, [path |-> NoPath, num |-> -1])

\* The loop body of _scan_ckpt_files over the entries of seq.
RECURSIVE Collect(_, _, _)
Collect(seq, i, acc) ==
    IF i > Len(seq) THEN acc
    ELSE IF ~RegexMatches(seq[i], Exts) THEN Collect(seq, i + 1, acc)
    ELSE LET full == ResolvePath(seq[i])
         IN IF full \in acc.seen THEN Collect(seq, i + 1, acc)
            ELSE Collect(seq, i + 1,
                     [out |-> Append(acc.out, [full |-> full,
                                               num |-> IntOf(seq[i].digits)]),
                      seen |-> acc.seen \cup {full}])

\* out.sort(key=lambda t: t[1]): a stable sort.
RECURSIVE InsertByNum(_, _)
InsertByNum(sorted, x) ==
    IF Len(sorted) = 0 THEN <<x>>
    ELSE IF sorted[Len(sorted)].num <= x.num THEN Append(sorted, x)
    ELSE Append(InsertByNum(SubSeq(sorted, 1, Len(sorted) - 1), x),
                sorted[Len(sorted)])

RECURSIVE SortByNum(_)
SortByNum(out) ==
    IF Len(out) = 0 THEN <<>>
    ELSE InsertByNum(SortByNum(SubSeq(out, 1, Len(out) - 1)), out[Len(out)])

\* _scan_ckpt_files(gsplat_dir) on a tree listed in the order o.
ScanCkptFiles(o, ckpts_exists) ==
    LET direct == (IF ckpts_exists
                   THEN Glob(o, "ckpts", "pt") \o Glob(o, "ckpts", "pth")
                   ELSE <<>>)
                  \o Glob(o, "root", "pt") \o Glob(o, "root", "pth")
        first == Collect(direct, 1, [out |-> <<>>, seen |-> {}])
        all == IF Len(first.out) = 0
               THEN Collect(RGlob(o, "pt") \o RGlob(o, "pth"), 1, first)
               ELSE first
    IN SortByNum(all.out)

InitResolve ==
    /\ LoaderAtRest
    /\ viewer = ViewerNew(NoneCap, NoneCap)
    /\ fs = FsNone
    /\ call \in {[fn |-> "resolve", arg |-> [files |-> S, ckpts_exists |-> x]] :
                    S \in FileSets, x \in BOOLEAN}
    /\ (\E e \in call.arg.files : e.loc = "ckpts") => call.arg.ckpts_exists
    /\ ret = NoRet

\* best_path, best_num = _find_best_ckpt(dir_path)    (the loader)
FindBestCall ==
    /\ call.fn = "resolve"
    /\ ret.fn = "none"
    /\ \E o \in Orders(call.arg.files) :
         ret' = [fn |-> "find_best", val |-> FindBestCkpt(o, call.arg.ckpts_exists)]
    /\ UNCHANGED <<loaderVars, viewer, fs, call>>

\* items = self._scan_ckpt_files(gsplat_dir)    (the checkpoint dropdown)
ScanCkptCall ==
    /\ call.fn = "resolve"
    /\ ret.fn = "none"
    /\ \E o \in Orders(call.arg.files) :
         ret' = [fn |-> "scan_ckpt", val |-> ScanCkptFiles(o, call.arg.ckpts_exists)]
    /\ UNCHANGED <<loaderVars, viewer, fs, call>>

\* A dropdown handler on a new selection: self._update_ckpt_dropdown(dir),
\* which scans the checkpoints it offers, then self._on_select_dir(dir), whose
\* load resolves the checkpoint with _find_best_ckpt.
UpdateAndSelectCall ==
    /\ call.fn = "resolve"
    /\ ret.fn = "none"
    /\ \E o1, o2 \in Orders(call.arg.files) :
         ret' = [fn |-> "select",
                 val |-> [items |-> ScanCkptFiles(o1, call.arg.ckpts_exists),
                          best |-> FindBestCkpt(o2, call.arg.ckpts_exists)]]
    /\ UNCHANGED <<loaderVars, viewer, fs, call>>

NextResolve == FindBestCall \/ ScanCkptCall \/ UpdateAndSelectCall

SpecResolve == InitResolve /\ [][NextResolve]_vars

\* ================================================================== catalog
\* if self._max_dates is not None and self._max_dates > 0:
\*     labels = labels[-self._max_dates:]
CapOldest(labels, n) ==
    IF n # NoneCap /\ n > 0 /\ Len(labels) > n THEN SubSeq(labels, 1, n) ELSE labels
Cap(labels, n) ==
    IF n # NoneCap /\ n > 0 THEN LastN(labels, n) ELSE labels

\* base_mtime == self._base_mtime; self._date_mtimes.get(date_label) == mtime
MtimeUnchangedAlways(stored, current) == TRUE
MtimeUnchanged(stored, current) == stored = current

\* dict.pop(k, None) and d[k] = v
DictPopNothing(d, k) == d
DictPop(d, k) == [x \in DOMAIN d \ {k} |-> d[x]]
DictSet(d, k, v) == [x \in DOMAIN d \cup {k} |-> IF x = k THEN v ELSE d[x]]

\* The children of base_dir that pass the date test (all children are
\* directories).
DateChildren(f) == {n \in f.root.entries : IsDateName(n)}

\* (base_dir / date_label).exists() and .is_dir(), and its st_mtime_ns.
DateDirExists(f, dl) == f.root.state # "missing" /\ dl \in f.root.entries
DateDirMtime(f, dl) == IF dl = SessionDate THEN f.date.mtime ELSE 1

\* d.glob("multisequence*/gsplat_2dgs") with p.is_dir(): nothing for a
\* directory that cannot be listed.
MultiChildren(f, dl) ==
    IF dl = SessionDate /\ f.date.readable
    THEN {m \in Multis : f.date.multis[m] = "full"}
    ELSE {}

\* _scan_date_labels: the new fields of the panel and the value returned.
ScanDateLabels(v, f) ==
    IF f.root.state = "missing"
    THEN [v |-> [v EXCEPT !.date_labels = <<>>, !.base_mtime = NoneTime],
          val |-> <<>>]
    ELSE IF /\ Len(v.date_labels) > 0
            /\ v.base_mtime # NoneTime
            /\ MtimeUnchanged(v.base_mtime, f.root.mtime)
    THEN [v |-> v, val |-> v.date_labels]
    ELSE IF f.root.state = "unreadable"
    THEN \* iterdir() raises: except Exception: return list(self._date_labels)
         [v |-> v, val |-> v.date_labels]
    ELSE LET labels == Cap(SortLex(DateChildren(f)), v.max_dates)
         IN [v |-> [v EXCEPT !.date_labels = labels, !.base_mtime = f.root.mtime],
             val |-> labels]

\* _scan_multis_for_date(date_label)
ScanMultisForDate(v, f, dl) ==
    IF ~DateDirExists(f, dl)
    THEN [v |-> [v EXCEPT !.date_to_multis = DictPop(@, dl),
                          !.date_mtimes = DictPop(@, dl)],
          val |-> <<>>]
    ELSE IF /\ dl \in DOMAIN v.date_mtimes
            /\ MtimeUnchanged(v.date_mtimes[dl], DateDirMtime(f, dl))
            /\ dl \in DOMAIN v.date_to_multis
    THEN [v |-> v, val |-> v.date_to_multis[dl]]
    ELSE LET multis == Cap(SortLex(MultiChildren(f, dl)), v.max_multis)
         IN [v |-> [v EXCEPT !.date_to_multis = DictSet(@, dl, multis),
                             !.date_mtimes = DictSet(@, dl, DateDirMtime(f, dl))],
             val |-> multis]

\* The values given to --max_dates and --max_multis.
Caps == {<<NoneCap, NoneCap>>, <<0, NoneCap>>, <<2, 1>>}

\* The trees the panel is started on: all modification times are 1.
InitialTrees ==
    {FsNone} \cup
    {[root |-> [state |-> "ok", mtime |-> 1, entries |-> E],
      date |-> [readable |-> TRUE, mtime |-> 1, multis |-> M],
      clock |-> 1] :
        E \in SUBSET RootNames, M \in [Multis -> {"absent", "bare", "full"}]}

InitCatalog ==
    /\ LoaderAtRest
    /\ viewer \in {ViewerNew(c[1], c[2]) : c \in Caps}
    /\ fs \in {f \in InitialTrees :
                 SessionDate \notin f.root.entries
                 => f.date.multis = [m \in Multis |-> "absent"]}
    /\ call = NoCall
    /\ ret = NoRet

\* date_labels = self._scan_date_labels()
ScanDatesCall ==
    /\ LET r == ScanDateLabels(viewer, fs)
       IN /\ viewer' = r.v
          /\ ret' = [fn |-> "scan_dates", val |-> r.val]
    /\ call' = [fn |-> "scan_dates", arg |-> <<>>]
    /\ UNCHANGED <<loaderVars, fs>>

\* multis = self._scan_multis_for_date(cur_date)
ScanMultisCall(dl) ==
    /\ LET r == ScanMultisForDate(viewer, fs, dl)
       IN /\ viewer' = r.v
          /\ ret' = [fn |-> "scan_multis", val |-> r.val]
    /\ call' = [fn |-> "scan_multis", arg |-> dl]
    /\ UNCHANGED <<loaderVars, fs>>

\* ---------------------------------------- what happens under base_dir
Tick(f) == f.clock + 1

\* mkdir base_dir
CreateRoot ==
    /\ fs.root.state = "missing"
    /\ fs.clock < MaxClock
    /\ fs' = [fs EXCEPT !.root = [state |-> "ok", mtime |-> Tick(fs), entries |-> {}],
                        !.clock = Tick(fs)]
    /\ UNCHANGED <<loaderVars, viewer, call, ret>>

\* rm -r base_dir
RemoveRoot ==
    /\ fs.root.state # "missing"
    /\ fs.clock < MaxClock
    /\ fs' = [FsNone EXCEPT !.clock = Tick(fs)]
    /\ UNCHANGED <<loaderVars, viewer, call, ret>>

\* chmod of base_dir: listing it is denied or allowed again; the
\* modification time stays.
ChmodRoot ==
    /\ fs.root.state # "missing"
    /\ fs' = [fs EXCEPT !.root.state = IF @ = "ok" THEN "unreadable" ELSE "ok"]
    /\ UNCHANGED <<loaderVars, viewer, call, ret>>

\* mkdir base_dir/<n>
AddEntry(n) ==
    /\ fs.root.state # "missing"
    /\ n \notin fs.root.entries
    /\ fs.clock < MaxClock
    /\ fs' = [fs EXCEPT !.root.entries = @ \cup {n}, !.root.mtime = Tick(fs),
                        !.date.mtime = IF n = SessionDate THEN Tick(fs) ELSE @,
                        !.clock = Tick(fs)]
    /\ UNCHANGED <<loaderVars, viewer, call, ret>>

\* rm -r base_dir/<n>
RemoveEntry(n) ==
    /\ fs.root.state # "missing"
    /\ n \in fs.root.entries
    /\ fs.clock < MaxClock
    /\ fs' = [fs EXCEPT !.root.entries = @ \ {n}, !.root.mtime = Tick(fs),
                        !.date = IF n = SessionDate THEN FsNone.date ELSE @,
                        !.clock = Tick(fs)]
    /\ UNCHANGED <<loaderVars, viewer, call, ret>>

\* chmod of the date directory.
ChmodDate ==
    /\ DateDirExists(fs, SessionDate)
    /\ fs' = [fs EXCEPT !.date.readable = ~@]
    /\ UNCHANGED <<loaderVars, viewer, call, ret>>

\* mkdir <date>/<m>: the date directory changes.
MakeMulti(m) ==
    /\ DateDirExists(fs, SessionDate)
    /\ fs.date.multis[m] = "absent"
    /\ fs.clock < MaxClock
    /\ fs' = [fs EXCEPT !.date.multis[m] = "bare", !.date.mtime = Tick(fs),
                        !.clock = Tick(fs)]
    /\ UNCHANGED <<loaderVars, viewer, call, ret>>

\* mkdir <date>/<m>/gsplat_2dgs: <m> changes, the date directory does not.
MakeGsplat(m) ==
    /\ DateDirExists(fs, SessionDate)
    /\ fs.date.multis[m] = "bare"
    /\ fs.clock < MaxClock
    /\ fs' = [fs EXCEPT !.date.multis[m] = "full", !.clock = Tick(fs)]
    /\ UNCHANGED <<loaderVars, viewer, call, ret>>

\* rmdir <date>/<m>/gsplat_2dgs: <m> changes, the date directory does not.
RemoveGsplat(m) ==
    /\ DateDirExists(fs, SessionDate)
    /\ fs.date.multis[m] = "full"
    /\ fs.clock < MaxClock
    /\ fs' = [fs EXCEPT !.date.multis[m] = "bare", !.clock = Tick(fs)]
    /\ UNCHANGED <<loaderVars, viewer, call, ret>>

\* rm -r <date>/<m>
RemoveMulti(m) ==
    /\ DateDirExists(fs, SessionDate)
    /\ fs.date.multis[m] # "absent"
    /\ fs.clock < MaxClock
    /\ fs' = [fs EXCEPT !.date.multis[m] = "absent", !.date.mtime = Tick(fs),
                        !.clock = Tick(fs)]
    /\ UNCHANGED <<loaderVars, viewer, call, ret>>

NextCatalog ==
    \/ ScanDatesCall
    \/ \E dl \in {SessionDate, DateName(1)} : ScanMultisCall(dl)
    \/ CreateRoot
    \/ RemoveRoot
    \/ ChmodRoot
    \/ \E n \in RootNames : AddEntry(n)
    \/ \E n \in RootNames : RemoveEntry(n)
    \/ ChmodDate
    \/ \E m \in Multis : MakeMulti(m)
    \/ \E m \in Multis : MakeGsplat(m)
    \/ \E m \in Multis : RemoveGsplat(m)
    \/ \E m \in Multis : RemoveMulti(m)

SpecCatalog == InitCatalog /\ [][NextCatalog]_vars

\* ================================================================== refresh
\* The labels "unknown" and "<none>" that stand in for a missing date and a
\* missing multisequence.
UnknownDate == <<117>>
NoneChoice == <<60>>

\* The directory base_dir/<date>/<multi>/gsplat_2dgs: "A" is multisequence9
\* of the latest date, the session _resolve_initial_dir picks, "B" is
\* multisequence10 of that date, and "C" stands for every other path, a
\* directory that does not exist.
GsplatDirName(dl, m) ==
    IF dl = SessionDate /\ m = MultiName(<<57>>) THEN "A"
    ELSE IF dl = SessionDate /\ m = MultiName(<<49, 48>>) THEN "B"
    ELSE "C"

\* _resolve_gsplat_dir(date_label, multi_label): a resolved path.
ResolveGsplatDir(dl, m) ==
    IF dl = NoneLabel \/ m = NoneLabel THEN NoneDir
    ELSE [d |-> GsplatDirName(dl, m), raw |-> FALSE]

\* The last element of a listing, None when it is empty.
LastOrNone(l) == IF Len(l) = 0 THEN NoneLabel ELSE l[Len(l)]

\* _resolve_initial_dir(base_dir, None, None) on the tree f: the directory of
\* the last multisequence with gsplat_2dgs of the last date directory, in the
\* form base_dir is written in.
ResolveInitialDir(f, raw) ==
    IF f.root.state # "ok" THEN NoneDir
    ELSE LET date == LastOrNone(SortLex(DateChildren(f)))
             multi == IF date = NoneLabel THEN NoneLabel
                      ELSE LastOrNone(SortLex(MultiChildren(f, date)))
         IN IF multi = NoneLabel THEN NoneDir
            ELSE [d |-> GsplatDirName(date, multi), raw |-> raw]

\* GsplatViewerBrics.__init__ on the tree f with the caps c: the first scans,
\* the dropdown values and output_dir (the directory given to the base
\* class: the resolved selection, or the output_dir argument, which is
\* base_dir when there is no session).
ViewerBuilt(f, c) ==
    LET r1 == ScanDateLabels(ViewerNew(c[1], c[2]), f)
        none == Len(r1.val) = 0
        labels == IF none THEN <<UnknownDate>> ELSE r1.val
        v1 == IF none
              THEN [r1.v EXCEPT !.date_to_multis = DictSet(@, UnknownDate, <<>>)]
              ELSE r1.v
        cur_date == labels[Len(labels)]
        r2 == ScanMultisForDate(v1, f, cur_date)
        cur_multi == LastOrNone(r2.val)
    IN [r2.v EXCEPT !.date_choices = labels,
                    !.multi_choices = IF Len(r2.val) > 0 THEN r2.val
                                      ELSE <<NoneChoice>>,
                    !.date_value = cur_date,
                    !.multi_value = IF Len(r2.val) > 0 THEN cur_multi
                                    ELSE NoneChoice,
                    !.output_dir = ResolveGsplatDir(cur_date, cur_multi)]

\* The trees the viewer is started on in the runs that follow a refresh.
RefreshTrees == {f \in InitialTrees :
                    f.root.state = "ok" => SessionDate \in f.root.entries}

InitRefresh ==
    /\ data = [payload |-> NonePayload, ckpt_num |-> NoneNum, dir |-> NoneDir]
    /\ cache = <<>>
    /\ load_token = 0
    /\ status = "Idle"
    /\ ckpts \in {f \in [Dirs -> {{}, {1}}] : f["B"] = {1} /\ f["C"] = {}}
    /\ fs \in RefreshTrees
    /\ initial_dir \in {ResolveInitialDir(fs, raw) : raw \in BOOLEAN}
    /\ initial_done = FALSE
    /\ announced = [p \in Paths |-> 0]
    /\ thr = [t \in Tokens |-> NewThread]
    /\ dataBy = 0
    /\ mutators = {}
    /\ viewer \in {ViewerBuilt(fs, c) : c \in Caps}
    /\ call = NoCall
    /\ ret = NoRet

\* request_load(p) as a handler of the panel or main calls it, with the record
\* of the call: the directory and the version it can resolve at that moment.
RequestLoad(p) ==
    /\ Announce(p)
    /\ call' = [fn |-> "request_load",
                arg |-> [dir |-> Resolve(p), ver |-> find_best_ckpt(p)]]

\* main: if initial_dir is not None: request_load(initial_dir)
MainRequest ==
    /\ ~initial_done
    /\ initial_dir # NoneDir
    /\ initial_done' = TRUE
    /\ RequestLoad(initial_dir)
    /\ UNCHANGED <<viewer, fs, ret>>

\* The handler of the date dropdown, the user having picked nd.
SelectDate(nd) ==
    /\ nd \in {viewer.date_choices[i] : i \in 1..Len(viewer.date_choices)}
    /\ nd # viewer.date_value
    /\ LET r == ScanMultisForDate([viewer EXCEPT !.date_value = nd], fs, nd)
           some == Len(r.val) > 0
           sel_multi == IF some THEN r.val[Len(r.val)] ELSE NoneChoice
           new_dir == ResolveGsplatDir(nd, sel_multi)
       IN /\ viewer' = [r.v EXCEPT !.multi_choices = IF some THEN r.val
                                                     ELSE <<NoneChoice>>,
                                   !.multi_value = sel_multi,
                                   !.output_dir = new_dir]
          /\ RequestLoad(new_dir)
    /\ UNCHANGED <<initial_done, fs, ret>>

\* The handler of the multisequence dropdown, the user having picked m.
SelectMulti(m) ==
    /\ m \in {viewer.multi_choices[i] : i \in 1..Len(viewer.multi_choices)}
    /\ m # NoneChoice
    /\ m # viewer.multi_value
    /\ LET new_dir == ResolveGsplatDir(viewer.date_value, m)
       IN /\ viewer' = [viewer EXCEPT !.multi_value = m, !.output_dir = new_dir]
          /\ RequestLoad(new_dir)
    /\ UNCHANGED <<initial_done, fs, ret>>

\* if Path(self.output_dir) != new_dir:
SessionChanged(output_dir, new_dir) == output_dir # new_dir

\* What refresh_base_dir does on the panel v and the tree: the panel after it,
\* the directory it resolved (None when it returned before) and whether it
\* calls _on_select_dir.
RefreshBaseDir(v, f) ==
    LET r1 == ScanDateLabels(v, f)
    IN IF Len(r1.val) = 0
       THEN [v |-> r1.v, dir |-> NoneDir, select |-> FALSE]
       ELSE
         LET cur_date == IF v.date_value \in AsLabels(r1.val) THEN v.date_value
                         ELSE r1.val[Len(r1.val)]
             r2 == ScanMultisForDate(r1.v, f, cur_date)
             cur_multi == IF v.multi_value \in AsLabels(r2.val) THEN v.multi_value
                          ELSE LastOrNone(r2.val)
             v2 == [r2.v EXCEPT !.date_choices = r1.val, !.date_value = cur_date,
                                !.multi_choices = r2.val]
             new_dir == ResolveGsplatDir(cur_date, cur_multi)
         IN IF cur_multi = NoneLabel
            THEN [v |-> v2, dir |-> NoneDir, select |-> FALSE]
            ELSE IF SessionChanged(v.output_dir, new_dir)
            THEN [v |-> [v2 EXCEPT !.multi_value = cur_multi,
                                   !.output_dir = new_dir],
                  dir |-> new_dir, select |-> TRUE]
            ELSE [v |-> [v2 EXCEPT !.multi_value = cur_multi],
                  dir |-> new_dir, select |-> FALSE]

\* viewer.refresh_base_dir() of _periodic_refresh; ret keeps what it found:
\* the directory it resolved, the version to be resolved there and whether it
\* requested a load.
Refresh ==
    /\ LET r == RefreshBaseDir(viewer, fs)
       IN /\ viewer' = r.v
          /\ ret' = [fn |-> "refresh",
                     val |-> [dir |-> r.dir,
                              ver |-> IF r.dir = NoneDir THEN NoneNum
                                      ELSE find_best_ckpt(r.dir),
                              select |-> r.select]]
          /\ IF r.select
             THEN RequestLoad(r.dir)
             ELSE UNCHANGED <<data, cache, load_token, status, ckpts, initial_dir,
                              announced, thr, dataBy, mutators, call>>
    /\ UNCHANGED <<initial_done, fs>>

NextRefresh ==
    \/ MainRequest
    \/ \E nd \in DateNames \cup {UnknownDate} : SelectDate(nd)
    \/ \E m \in Multis : SelectMulti(m)
    \/ Refresh
    \/ \E d \in Growing : NewCkpt(d)
    \/ \E m \in Multis : RemoveMulti(m)
    \/ \E m \in Multis : MakeGsplat(m)

SpecRefresh == InitRefresh /\ [][NextRefresh]_vars

\* ================================================================== eviction
\* Selections of sessions that all hold a checkpoint and load without error,
\* one request more than in the main runs: three loads fill the cache past
\* CACHE_SIZE while a fourth request looks a key up.
SelectDirEvict(d) ==
    /\ UNCHANGED initial_done
    /\ AnnounceWithin([d |-> d, raw |-> FALSE], MaxThreads)
    /\ UNCHANGED viewVars

InitEvict ==
    /\ LoaderAtRest
    /\ ViewAtRest

NextEvict ==
    \/ \E d \in Dirs : SelectDirEvict(d)
    \/ \E p \in Paths : TakeToken(p)
    \/ \E t \in Tokens : DoResolve(t)
    \/ \E t \in Tokens : CheckDir(t)
    \/ \E t \in Tokens : CheckNum(t)
    \/ \E t \in Tokens : AlreadyStatus(t)
    \/ \E t \in Tokens : CacheCheck(t)
    \/ \E t \in Tokens : CacheRead(t)
    \/ \E t \in Tokens : HitPublish(t)
    \/ \E t \in Tokens : CachedStatus(t)
    \/ \E t \in Tokens : LoadOk(t)
    \/ \E t \in Tokens : LoadPublish(t)
    \/ \E t \in Tokens : LoadedStatus(t)

SpecEvict == InitEvict /\ [][NextEvict]_vars

\* ============================================================ batch launcher
\* The targets under base_dir that can exist: <date>/<multisequence> for two
\* dates and the two multisequences.
Slots == {<<DateName(1), MultiName(<<57>>)>>, <<DateName(1), MultiName(<<49, 48>>)>>,
          <<DateName(2), MultiName(<<57>>)>>}

\* The option strings of the parser: --data-factor, --dry-run, --skip-existing.
OptDataFactor == <<45, 45, 100, 97, 116, 97, 45, 102, 97, 99, 116, 111, 114>>
OptDryRun == <<45, 45, 100, 114, 121, 45, 114, 117, 110>>
OptSkipExisting == <<45, 45, 115, 107, 105, 112, 45, 101, 120, 105, 115, 116,
                     105, 110, 103>>

\* argparse: the attribute an option is stored under is its option string
\* without the leading "--" and with every "-" turned into "_".
Dest(opt) ==
    LET Underscore == 95
    IN [i \in 1..(Len(opt) - 2) |->
           IF opt[i + 2] = Hyphen THEN Underscore ELSE opt[i + 2]]

\* args.__dict__ after parse_args().
Namespace(a) ==
    (Dest(OptDataFactor) :> a.data_factor) @@ (Dest(OptDryRun) :> a.dry_run)
        @@ (Dest(OptSkipExisting) :> a.skip_existing)

\* d[k]: the value, or KeyError.
KeyError == "KeyError"
Subscript(d, k) == IF k \in DOMAIN d THEN d[k] ELSE KeyError

\* A target is before another: dates ascending, then multisequences
\* ascending, both as str.
TargetLess(x, y) ==
    LexLess(x[1], y[1]) \/ (x[1] = y[1] /\ LexLess(x[2], y[2]))

RECURSIVE SortTargets(_)
SortTargets(S) ==
    IF S = {} THEN <<>>
    ELSE LET x == CHOOSE y \in S : \A z \in S \ {y} : TargetLess(y, z)
         IN <<x>> \o SortTargets(S \ {x})

\* find_targets(base_dir, date, None): the multisequences with calib/stage2
\* of the date directories, of the date asked for when one is given.
FindTargets(a) ==
    SortTargets({x \in Slots : /\ a.tree[x] \in {"stage2", "trained"}
                               /\ (a.date # NoneLabel => x[1] = a.date)})

\* The runs of the launcher: per slot nothing, a multisequence without
\* calib/stage2, one with it, or one with it and checkpoints in
\* gsplat_2dgs/ckpts; the exit code each training would end with.
LaunchInputs ==
    [tree : [Slots -> {"absent", "bare", "stage2", "trained"}],
     exit : [Slots -> {0, 1}],
     date : {NoneLabel, DateName(1)},
     data_factor : {1, 2},
     dry_run : BOOLEAN,
     skip_existing : BOOLEAN,
     trainer_exists : BOOLEAN]

InitLaunch ==
    /\ LoaderAtRest
    /\ viewer = ViewerNew(NoneCap, NoneCap)
    /\ fs = FsNone
    /\ call \in {[fn |-> "launch", arg |-> a] : a \in LaunchInputs}
    /\ \A x \in Slots : call.arg.tree[x] \in {"absent", "bare"}
                            => call.arg.exit[x] = 0
    /\ ret = [fn |-> "launch",
              val |-> [pc |-> "start", targets |-> <<>>, i |-> 0,
                       launched |-> <<>>, code |-> 0]]

\* main up to the loop: the trainer script must exist (else return 1); no
\* target found: return 0.
LaunchStart ==
    /\ call.fn = "launch"
    /\ ret.val.pc = "start"
    /\ LET targets == FindTargets(call.arg)
       IN ret' = [ret EXCEPT !.val =
                    IF ~call.arg.trainer_exists
                    THEN [@ EXCEPT !.pc = "returned", !.code = 1]
                    ELSE IF Len(targets) = 0
                    THEN [@ EXCEPT !.pc = "returned", !.code = 0]
                    ELSE [@ EXCEPT !.pc = "loop", !.targets = targets, !.i = 1]]
    /\ UNCHANGED <<loaderVars, viewer, fs, call>>

\* One iteration of `for stage2, result_dir, mdir in targets`, or the end of
\* the loop: skip a trained target under --skip-existing; build the command,
\* looking the data factor up in args.__dict__; under --dry-run go on; run
\* the training and return its exit code when it is not 0.
LaunchIteration ==
    /\ call.fn = "launch"
    /\ ret.val.pc = "loop"
    /\ LET v == ret.val
           a == call.arg
       IN ret' = [ret EXCEPT !.val =
            IF v.i > Len(v.targets)
            THEN [v EXCEPT !.pc = "returned", !.code = 0]
            ELSE LET x == v.targets[v.i]
                     \* the key main uses: "data-factor"
                     key == SubSeq(OptDataFactor, 3, Len(OptDataFactor))
                     factor == Subscript(Namespace(a), key)
                 IN IF a.skip_existing /\ a.tree[x] = "trained"
                    THEN [v EXCEPT !.i = @ + 1]
                    ELSE IF factor = KeyError
                    THEN [v EXCEPT !.pc = "raised", !.code = 1]
                    ELSE IF a.dry_run
                    THEN [v EXCEPT !.i = @ + 1]
                    ELSE IF a.exit[x] # 0
                    THEN [v EXCEPT !.pc = "returned", !.code = a.exit[x],
                                   !.launched = Append(@, [target |-> x,
                                                           data_factor |-> factor])]
                    ELSE [v EXCEPT !.i = @ + 1,
                                   !.launched = Append(@, [target |-> x,
                                                           data_factor |-> factor])]]
    /\ UNCHANGED <<loaderVars, viewer, fs, call>>

NextLaunch == LaunchStart \/ LaunchIteration

SpecLaunch == InitLaunch /\ [][NextLaunch]_vars

\* ------------------------------------------------------------------ claims
\* Every request_load call has its outcome: nothing announced is waiting for
\* its token and every started load has returned.
Settled ==
    /\ \A p \in Paths : announced[p] = 0
    /\ \A t \in Tokens : thr[t].pc \in DonePc \cup {"unused"}

\* The outcomes in which _do_load found the scene displayed or displayed it.
SucceededPc == {"done_already", "done_cached", "done_loaded"}

\* The status that the outcome of a load stands for.
OutcomeStatus(pc) ==
    CASE pc = "done_notfound" -> "NotFound"
      [] pc = "done_error" -> "Error"
      [] pc \in SucceededPc -> "Loaded"
      [] OTHER -> "None"

\* C1: once all outcomes have settled, the displayed (directory, version) is
\* the resolved (directory, version) of the request holding the maximum
\* token, provided it resolved a checkpoint and its load did not fail.
C1_FinalDisplayIsLatestRequest ==
    (/\ Settled
     /\ load_token \in Tokens
     /\ thr[load_token].pc \notin {"done_notfound", "done_error"})
    => /\ data.dir = Key(load_token)
       /\ data.ckpt_num = thr[load_token].best_num

\* An older load of another directory was discarded after the newest request
\* had been served, and the display shows the newest request.
C1_Witness ==
    /\ Settled
    /\ load_token \in Tokens
    /\ thr[load_token].pc = "done_loaded"
    /\ data.dir = Key(load_token)
    /\ \E t \in Tokens : /\ t < load_token
                         /\ thr[t].pc = "done_stale"
                         /\ thr[t].dir_path.d # thr[load_token].dir_path.d

\* C2: data is written (changed or not) only by the load whose token is
\* load_token at the moment of the write, in the step that compares the token
\* (under load_lock, on the cache-hit path and on the fresh-load path alike).
C2_PublishOnlyByCurrentToken ==
    [][(data' # data \/ dataBy' # dataBy) =>
         /\ load_token' = load_token
         /\ load_token \in Tokens
         /\ thr[load_token].pc \in {"hit_lock", "pub_lock"}
         /\ thr'[load_token].pc \in {"hit_status", "ld_status"}
         /\ dataBy' = load_token]_vars

\* A superseded load that hit the cache waits for load_lock while the display
\* holds what a newer request published.
C2_Witness ==
    \E t \in Tokens : /\ thr[t].pc = "hit_lock"
                      /\ t < load_token
                      /\ dataBy > t

\* C3: the tokens of the loads that successively change the displayed payload
\* are strictly increasing.
C3_PublishesInTokenOrder ==
    [][data' # data => dataBy' > dataBy]_vars

\* Two loads have published one after the other while a load older than the
\* second one is still running.
C3_Witness ==
    /\ dataBy \in Tokens
    /\ \E t \in mutators : t < dataBy
    /\ \E u \in Tokens : u < dataBy /\ thr[u].pc \in {"load", "pub_lock"}

\* C4 (as claimed): a load that succeeded leaves its payload in the cache under
\* its key when it passes load_lock, superseded or not.
C4_SupersededLoadIsCached ==
    [][\A t \in Tokens :
         (thr[t].pc = "pub_lock" /\ thr'[t].pc # "pub_lock")
         => \E k \in 1..Len(cache') : /\ cache'[k].key = Key(t)
                                      /\ cache'[k].payload = thr[t].payload]_vars

\* C5 (as claimed): the status is written at the end of _do_load only by the
\* load that holds the current maximum token.
C5_StatusOnlyForCurrentToken ==
    [][\A t \in Tokens :
         (/\ thr[t].pc \in {"nf_status", "al_status", "hit_status",
                             "err_status", "ld_status"}
          /\ thr'[t].pc \in DonePc)
         => t = load_token]_vars

\* C6 (as claimed): while the request holding the maximum token has no outcome
\* yet, the status is Loading.
C6_LoadingUntilCurrentResolves ==
    (load_token \in Tokens /\ thr[load_token].pc \notin DonePc)
    => status = "Loading"

\* C7: a load that takes the not-found or the error path changes neither data
\* nor cache in doing so, and has written neither before.
C7_FailureLeavesDisplayAndCache ==
    [][\A t \in Tokens :
         (/\ thr'[t].pc \in {"nf_status", "err_status", "done_notfound",
                              "done_error"}
          /\ thr'[t].pc # thr[t].pc)
         => /\ data' = data
            /\ cache' = cache
            /\ t \notin mutators']_vars

\* A request ended in NotFound and another one in Error after a scene had been
\* displayed, and that scene is still displayed and cached.
C7_Witness ==
    /\ \E t \in Tokens : thr[t].pc = "done_notfound" /\ t > dataBy
    /\ \E t \in Tokens : thr[t].pc = "done_error" /\ t > dataBy
    /\ data.payload # NonePayload
    /\ data.dir \in CacheKeys(cache)

\* C8 (as claimed): a request whose resolved (directory, version) is the
\* displayed one passes the directory test of the short-circuit, whatever the
\* form of the path it was called with.
C8_DisplayedRequestShortCircuits ==
    [][\A t \in Tokens :
         (/\ t = load_token
          /\ thr[t].pc = "check_dir"
          /\ thr'[t].pc # "check_dir"
          /\ data.dir = Key(t)
          /\ data.ckpt_num = thr[t].best_num)
         => thr'[t].pc = "check_num"]_vars

\* C9 (as claimed): after two requests for the same path that resolved the
\* same version, the status is the outcome of the second one and, when that
\* outcome is a success, the display shows its (directory, version).
C9_RepeatedRequestSameOutcome ==
    (/\ Settled
     /\ load_token = 2
     /\ thr[1].dir_path = thr[2].dir_path
     /\ thr[1].best_num = thr[2].best_num)
    => /\ status = OutcomeStatus(thr[2].pc)
       /\ thr[2].pc \in SucceededPc
            => (data.dir = Key(2) /\ data.ckpt_num = thr[2].best_num)

\* C10: a payload is taken from the cache only when the checkpoint number
\* stored with it is the number this load resolved as the latest.
C10_CacheServesOnlyResolvedVersion ==
    \A t \in Tokens :
        /\ thr[t].pc \in {"hit_lock", "hit_status"} => thr[t].num = thr[t].best_num
        /\ (thr[t].pc = "hit_status" /\ dataBy = t)
             => data.ckpt_num = thr[t].best_num

\* The cache holds an older checkpoint of the directory of the current
\* request, which was treated as a miss: the newer checkpoint is being loaded.
C10_Witness ==
    \E t \in Tokens :
        /\ t = load_token
        /\ thr[t].pc \in {"load", "pub_lock"}
        /\ Key(t) \in CacheKeys(cache)
        /\ cache[CacheIndex(cache, Key(t))].ckpt_num < thr[t].best_num

\* The loads that inserted into the cache (line 129), and the keys they
\* inserted in the order of the insertions, which is the order of the tokens.
InsertedBy == {t \in Tokens : thr[t].pc \in {"ld_status", "done_loaded"}}

RECURSIVE KeysUpTo(_)
KeysUpTo(n) ==
    IF n = 0 THEN <<>>
    ELSE IF n \in InsertedBy THEN Append(KeysUpTo(n - 1), Key(n))
         ELSE KeysUpTo(n - 1)

InsertedKeys == KeysUpTo(MaxRequests)

Distinct(s) == \A i, j \in 1..Len(s) : s[i] = s[j] => i = j

KeySeq(c) == [k \in 1..Len(c) |-> c[k].key]

\* C11: the cache never holds more than CACHE_SIZE entries, no key twice; when
\* the keys inserted so far are distinct, the cache holds exactly the last
\* CACHE_SIZE of them, in the order of insertion, and the membership test of
\* every earlier (evicted) key is false.
C11_CacheHoldsLastKeys ==
    /\ Len(cache) <= CACHE_SIZE
    /\ Distinct(KeySeq(cache))
    /\ Distinct(InsertedKeys) =>
         /\ KeySeq(cache) = LastN(InsertedKeys, CACHE_SIZE)
         /\ \A i \in 1..Len(InsertedKeys) :
               i <= Len(InsertedKeys) - CACHE_SIZE
               => InsertedKeys[i] \notin CacheKeys(cache)

\* Three distinct directories have been loaded one after the other: the cache
\* holds the last two and the first is gone.
C11_Witness ==
    /\ Len(InsertedKeys) = CACHE_SIZE + 1
    /\ Distinct(InsertedKeys)
    /\ KeySeq(cache) = <<InsertedKeys[2], InsertedKeys[3]>>
    /\ InsertedKeys[1] \notin CacheKeys(cache)

\* C12 (as claimed): a cache hit and an insertion, of a new key or of a newer
\* version under a key already present, leave that key the most recently used
\* one, the last of the OrderedDict, so that popitem(last=False) evicts the
\* least recently used entry.
C12_HitAndInsertPromote ==
    [][\A t \in Tokens :
         (\/ thr[t].pc = "cache_read" /\ thr'[t].pc = "hit_lock"
          \/ thr[t].pc = "pub_lock" /\ thr'[t].pc = "ld_status")
         => /\ Len(cache') > 0
            /\ cache'[Len(cache')].key = Key(t)]_vars

\* C13: every entry of the cache holds the payload of a load whose try block
\* ran to its end (LoadOk) and that inserted it itself, under its own key and
\* with the version it resolved; a load that raised has no entry.
C13_CachedPayloadsAreLoaded ==
    \A k \in 1..Len(cache) :
        LET e == cache[k]
        IN /\ e.payload \in Tokens
           /\ thr[e.payload].pc \in {"ld_status", "done_loaded"}
           /\ e.key = Key(e.payload)
           /\ e.ckpt_num = thr[e.payload].best_num

\* A load of a directory raised while the cache holds the payload that another
\* load of the same directory produced, and a load of another directory is
\* cached as well.
C13_Witness ==
    /\ Len(cache) = CACHE_SIZE
    /\ \E t \in Tokens : /\ thr[t].pc = "done_error"
                         /\ Key(t) \in CacheKeys(cache)

\* The shape YYYY-MM-DD: ten characters, hyphens at positions 4 and 7 (from 0)
\* and decimal digits everywhere else.
ShapeYMD(n) ==
    /\ Len(n) = 10
    /\ \A i \in 1..10 : IF i \in {5, 8} THEN n[i] = Hyphen ELSE n[i] \in Digits

\* C20 (as claimed): a name is accepted as a date entry exactly when it has
\* the shape YYYY-MM-DD.
C20_DateNameIsShapeYMD ==
    ret.fn = "is_date" => (ret.val <=> ShapeYMD(call.arg))

\* The version numbers of a set of files.
NumsOf(S) == {IntOf(e.digits) : e \in S}

\* The files each resolution looks at: the loader those of ckpts/ matching
\* the pattern with .pt; the dropdown those of ckpts/ and of the root matching
\* it with .pt or .pth and, when there is none, those of every depth.
LoaderCandidates ==
    IF call.arg.ckpts_exists
    THEN {e \in call.arg.files : e.loc = "ckpts" /\ RegexMatches(e, {"pt"})}
    ELSE {}

DropdownCandidates ==
    LET direct == {e \in call.arg.files : e.loc \in {"ckpts", "root"}
                                           /\ RegexMatches(e, Exts)}
    IN IF direct # {} THEN direct
       ELSE {e \in call.arg.files : RegexMatches(e, Exts)}

\* C18: the loader's resolution returns the maximum version among its
\* candidates together with the path of one candidate of that version (None
\* and -1 when there is no candidate); the dropdown's listing holds every
\* resolved path of its candidates exactly once, in ascending order of the
\* version, so that its last item has the maximum version.
C18_ResolutionReturnsMaxVersion ==
    /\ ret.fn = "find_best" =>
         IF LoaderCandidates = {}
         THEN ret.val = [path |-> NoPath, num |-> -1]
         ELSE /\ ret.val.num = MaxOf(NumsOf(LoaderCandidates))
              /\ ret.val.path \in {PathOf(e) : e \in
                     {f \in LoaderCandidates : IntOf(f.digits) = ret.val.num}}
    /\ ret.fn = "scan_ckpt" =>
         LET out == ret.val
         IN /\ \A i, j \in 1..Len(out) : out[i].full = out[j].full => i = j
            /\ \A i, j \in 1..Len(out) : i < j => out[i].num <= out[j].num
            /\ {out[i].full : i \in 1..Len(out)}
                 = {ResolvePath(e) : e \in DropdownCandidates}
            /\ Len(out) > 0 => out[Len(out)].num = MaxOf(NumsOf(DropdownCandidates))

\* ckpts/ holds ckpt_10.pt, ckpt_7.pt and ckpt_10_rank0.pt and the loader's
\* resolution returned version 10 with the path of ckpt_10_rank0.pt.
C18_Witness ==
    /\ call.fn = "resolve"
    /\ {PathOf(e) : e \in call.arg.files}
         = {[digits |-> <<1, 0>>, suffix |-> "none", ext |-> "pt", loc |-> "ckpts"],
            [digits |-> <<7>>, suffix |-> "none", ext |-> "pt", loc |-> "ckpts"],
            [digits |-> <<1, 0>>, suffix |-> "rank", ext |-> "pt", loc |-> "ckpts"]}
    /\ ret.fn = "find_best"
    /\ ret.val.num = 10
    /\ ret.val.path.suffix = "rank"

\* C19 (as claimed): the resolution that leads to the NotFound status returns
\* None only when no file matching the pattern lies anywhere under the
\* gsplat_2dgs directory.
C19_NoneOnlyWhenNoFileAnywhere ==
    (ret.fn = "find_best" /\ ret.val.num = -1)
    => ~\E e \in call.arg.files : RegexMatches(e, {"pt"})

\* C14: a refresh that finds the selected session still there, with a newer
\* checkpoint than the one the last request for that session could resolve,
\* requests a load of it.
C14_RefreshLoadsNewerCheckpoint ==
    (/\ ret.fn = "refresh"
     /\ ret.val.dir # NoneDir
     /\ call.fn = "request_load"
     /\ call.arg.dir = Resolve(ret.val.dir)
     /\ call.arg.dir = Resolve(viewer.output_dir)
     /\ ret.val.ver > call.arg.ver)
        => ret.val.select

\* The set of the elements of a listing.
AsSet(l) == {l[i] : i \in 1..Len(l)}

\* What a complete listing of base_dir, and of a date directory, would hold.
QualifyingDates == {n \in fs.root.entries : ShapeYMD(n)}
QualifyingMultis(dl) ==
    IF dl = SessionDate THEN {m \in Multis : fs.date.multis[m] = "full"} ELSE {}

\* A listing holds elements of Q only: all of them when no cap is configured,
\* and as many as the cap allows otherwise.
ListsChildren(l, Q, cap) ==
    /\ AsSet(l) \subseteq Q
    /\ Len(l) = IF cap > 0 /\ Cardinality(Q) > cap THEN cap ELSE Cardinality(Q)

\* The date directory named by the call exists and can be listed.
DateDirListable(dl) ==
    DateDirExists(fs, dl) /\ (dl = SessionDate => fs.date.readable)

\* The panel holds a listing of dl made at the directory's current timestamp.
MultisStoredNow(dl) ==
    /\ dl \in DOMAIN viewer.date_mtimes
    /\ viewer.date_mtimes[dl] = DateDirMtime(fs, dl)

\* C15: a scan of a directory that can be listed returns the stored listing,
\* and changes nothing, when the stored timestamp equals the directory's
\* st_mtime_ns; otherwise the listing returned holds the directory's current
\* qualifying children (up to the cap) and is stored with the new timestamp.
C15_ListingTrustedOnlyAtSameMtime ==
    [][fs' = fs =>
        /\ (call'.fn = "scan_dates" /\ fs.root.state = "ok") =>
             IF viewer.base_mtime = fs.root.mtime
             THEN ret'.val = viewer.date_labels /\ viewer' = viewer
             ELSE /\ ListsChildren(ret'.val, QualifyingDates, viewer.max_dates)
                  /\ viewer'.date_labels = ret'.val
                  /\ viewer'.base_mtime = fs.root.mtime
        /\ (call'.fn = "scan_multis" /\ DateDirListable(call'.arg)) =>
             IF MultisStoredNow(call'.arg)
             THEN ret'.val = viewer.date_to_multis[call'.arg] /\ viewer' = viewer
             ELSE /\ ListsChildren(ret'.val, QualifyingMultis(call'.arg),
                                   viewer.max_multis)
                  /\ viewer'.date_to_multis[call'.arg] = ret'.val
                  /\ viewer'.date_mtimes[call'.arg] = DateDirMtime(fs, call'.arg)]_vars

\* base_dir changed after the panel was started and was scanned since: the
\* listing returned holds its three date directories and is stored with the
\* new timestamp, while the listing of the date directory is still the one of
\* the first scan.
C15_Witness ==
    /\ fs.root.state = "ok"
    /\ fs.root.mtime = 2
    /\ fs.root.entries = RootNames
    /\ viewer.base_mtime = 2
    /\ ret.fn = "scan_dates"
    /\ AsSet(ret.val) = DateNames
    /\ SessionDate \in DOMAIN viewer.date_mtimes
    /\ viewer.date_mtimes[SessionDate] = 1

\* C16 (as claimed): a scan of a base_dir, or of a date directory, that does
\* not exist or cannot be listed returns the empty listing.
C16_UnreadableYieldsEmpty ==
    [][fs' = fs =>
        /\ (call'.fn = "scan_dates" /\ fs.root.state # "ok") => ret'.val = <<>>
        /\ (call'.fn = "scan_multis" /\ ~DateDirListable(call'.arg))
             => ret'.val = <<>>]_vars

\* x is among the n largest elements of Q (every element when n is no cap).
AmongLargest(x, Q, n) ==
    n > 0 => Cardinality({y \in Q : LexLess(x, y)}) < n

\* l is in strictly ascending order.
Ascending(l) == \A i, j \in 1..Len(l) : i < j => LexLess(l[i], l[j])

\* l is the ascending listing of the n largest elements of Q.
IsLargestListing(l, Q, n) ==
    /\ Ascending(l)
    /\ AsSet(l) = {x \in Q : AmongLargest(x, Q, n)}
    /\ Len(l) > 0 => \A y \in Q : y = l[Len(l)] \/ LexLess(y, l[Len(l)])

DictWithout(after, before, k) ==
    /\ DOMAIN after = DOMAIN before \ {k}
    /\ \A x \in DOMAIN after : after[x] = before[x]

\* C25: listing the sequences of a date directory that does not exist returns
\* the empty listing and removes the stored listing and the stored timestamp
\* of that date; the entries of every other date, and the date listing, stay.
C25_MissingDateDropsOnlyItsEntries ==
    [][(/\ fs' = fs
        /\ call'.fn = "scan_multis"
        /\ ~DateDirExists(fs, call'.arg))
         => /\ ret'.val = <<>>
            /\ DictWithout(viewer'.date_to_multis, viewer.date_to_multis, call'.arg)
            /\ DictWithout(viewer'.date_mtimes, viewer.date_mtimes, call'.arg)
            /\ viewer'.date_labels = viewer.date_labels
            /\ viewer'.base_mtime = viewer.base_mtime]_vars

\* The latest date directory was listed by the panel and then removed; its
\* sequences were asked for again, and the entries of 2025-01-01 are kept.
C25_Witness ==
    /\ fs.root.state = "ok"
    /\ fs.root.mtime = 2
    /\ SessionDate \notin fs.root.entries
    /\ SessionDate \in AsSet(viewer.date_labels)
    /\ call.fn = "scan_multis"
    /\ call.arg = SessionDate
    /\ ret.val = <<>>
    /\ SessionDate \notin DOMAIN viewer.date_to_multis
    /\ SessionDate \notin DOMAIN viewer.date_mtimes
    /\ DateName(1) \in DOMAIN viewer.date_to_multis
    /\ DateName(1) \in DOMAIN viewer.date_mtimes

\* C27 (as claimed): on a selection the last checkpoint the dropdown offers
\* has the version the loader resolves, and the dropdown offers none exactly
\* when the loader finds none.
C27_ResolversAgree ==
    ret.fn = "select" =>
        LET items == ret.val.items
            best == ret.val.best
        IN /\ (Len(items) = 0) <=> (best.num = -1)
           /\ Len(items) > 0 => items[Len(items)].num = best.num

\* C28 (as claimed): a request issued by a handler of the panel or by a
\* refresh is for a sequence listed for the selected date, and the selection
\* of a date without sequences (the sequence dropdown showing "<none>")
\* issues no request and leaves output_dir as it was.
C28_RequestsOnlyForListedSessions ==
    [][/\ (announced' # announced /\ initial_done' = initial_done)
           => /\ viewer'.date_value \in DOMAIN viewer'.date_to_multis
              /\ viewer'.multi_value
                   \in AsSet(viewer'.date_to_multis[viewer'.date_value])
       /\ (viewer'.date_value # viewer.date_value
             /\ viewer'.multi_value = NoneChoice)
           => /\ announced' = announced
              /\ viewer'.output_dir = viewer.output_dir]_vars

\* C22 (as claimed): the fields a render has read from data all belong to one
\* payload.
C22_RenderSeesOnePayload ==
    call.fn = "render" =>
        \A i, j \in 1..Len(ret.val) : ret.val[i] = ret.val[j]

\* C23 (as claimed): no lookup fails on an entry evicted between its
\* membership test and its read: no load ends with the KeyError of cache[key].
C23_LookupNeverFailsOnEvictedEntry ==
    \A t \in Tokens : thr[t].pc # "done_crash"

\* C24: the token never decreases; a request_load call that passes its lock
\* region raises it by exactly one and the thread it starts holds the new
\* value, which no thread held before; a thread keeps its token and request.
C24_TokenIncrementsAndIsUnique ==
    [][/\ load_token' >= load_token
       /\ load_token' <= load_token + 1
       /\ SumOver(announced', Paths) < SumOver(announced, Paths)
            => load_token' = load_token + 1
       /\ \A t \in Tokens :
            /\ (thr[t].pc = "unused" /\ thr'[t].pc # "unused")
                 => (t = load_token' /\ load_token' = load_token + 1)
            /\ thr[t].pc # "unused"
                 => (thr'[t].pc # "unused" /\ thr'[t].dir_path = thr[t].dir_path)
       /\ load_token' = load_token + 1
            => /\ thr[load_token'].pc = "unused"
               /\ thr'[load_token'].pc = "resolve"]_vars

\* Two requests for the same directory were issued before either of their
\* threads ran: they hold the tokens 1 and 2.
C24_Witness ==
    /\ load_token = 2
    /\ thr[1].pc = "resolve"
    /\ thr[2].pc = "resolve"
    /\ thr[1].dir_path = thr[2].dir_path

\* The statuses that are the outcome of a request.
OutcomeStatuses == {"Loaded", "NotFound", "Error"}

\* C26: under fair scheduling the status Loading is always followed by the
\* outcome of a request, the status finally stays an outcome (or Idle when
\* nothing was ever requested), and it becomes Loading only in the step in
\* which a request is announced.
C26_EventuallyLeavesLoading ==
    /\ (status = "Loading") ~> (status \in OutcomeStatuses)
    /\ <>[](status # "Loading")
    /\ [][(status # "Loading" /\ status' = "Loading")
            => SumOver(announced', Paths) > SumOver(announced, Paths)]_vars

\* All requests of the run were issued and all their loads ended, one of them
\* superseded and silent; the status is the outcome of a request.
C26_Witness ==
    /\ Settled
    /\ load_token = LiveRequests
    /\ \E t \in Tokens : thr[t].pc = "done_stale"
    /\ status \in OutcomeStatuses

\* The targets left after --skip-existing, and the trainings the launcher is
\* to start of them: each one up to and including the first that fails.
RECURSIVE UpToFirstFailure(_, _)
UpToFirstFailure(l, exit) ==
    IF Len(l) = 0 THEN <<>>
    ELSE IF exit[l[1]] # 0 THEN <<l[1]>>
    ELSE <<l[1]>> \o UpToFirstFailure(Tail(l), exit)

Remaining(a) ==
    SelectSeq(FindTargets(a),
              LAMBDA x : ~(a.skip_existing /\ a.tree[x] = "trained"))

\* C29 (as claimed): with the trainer script in place and without --dry-run
\* the launcher ends by returning; it has then launched, in order and with
\* the configured data factor, the remaining targets up to and including the
\* first whose training failed, and returns that exit code, or 0 when none
\* failed or none was found.
C29_LaunchesTargetsUntilFailure ==
    (/\ call.fn = "launch"
     /\ call.arg.trainer_exists
     /\ ~call.arg.dry_run
     /\ ret.val.pc \in {"returned", "raised"})
    => LET want == UpToFirstFailure(Remaining(call.arg), call.arg.exit)
       IN /\ ret.val.pc = "returned"
          /\ Len(ret.val.launched) = Len(want)
          /\ \A k \in 1..Len(want) :
               /\ ret.val.launched[k].target = want[k]
               /\ ret.val.launched[k].data_factor = call.arg.data_factor
          /\ ret.val.code = IF Len(want) > 0 /\ call.arg.exit[want[Len(want)]] # 0
                            THEN call.arg.exit[want[Len(want)]]
                            ELSE 0

====
